---- MODULE Spec2Model ----
(***************************************************************************)
(* Venue Voter: the store-rating database (tables, constraints, row-level   *)
(* security policies, the store_ratings view, the handle_new_user trigger)  *)
(* and the UserDashboard client that writes ratings through it.             *)
(*                                                                          *)
(* Text columns are modelled by their length (the constraints only look at  *)
(* length); uuids are modelled by integers drawn from a counter.            *)
(***************************************************************************)
EXTENDS Integers, FiniteSets, Sequences, TLC

VARIABLES users, profiles, stores, ratings, nextId, last, sess

vars == <<users, profiles, stores, ratings, nextId, last, sess>>
dbvars == <<users, profiles, stores, ratings, nextId>>

(***************************************************************************)
(* Bounds of the model                                                      *)
(***************************************************************************)
MaxAccounts == 2
MaxStores == 2
MaxRatings == 2
MaxSessions == 2
\* rows the table owner seeds before the policies are exercised
SeedStores == 1
SeedRatings == 1
\* accounts registered where the rows are examined one by one
SeedAccounts == 1

(***************************************************************************)
(* Values                                                                   *)
(***************************************************************************)
\* SQL NULL (an absent column value, an absent metadata key, auth.uid() of
\* a session without a JWT)
NULL == -1

\* The role that ran the migrations: it owns the three tables.
TableOwner == 0

AccountIds == 1..MaxAccounts

\* gen_random_uuid(): identifiers never repeat.  The profile of an account,
\* the k-th store and the k-th rating ever created get distinct numbers.
ProfileIdOf(a) == MaxAccounts + a
StoreIdOf(k) == MaxAccounts + MaxAccounts + k
RatingIdOf(k) == MaxAccounts + MaxAccounts + MaxStores + k
\* the identifier drawn for a second profile row of an account
SecondProfileIdOf(a) ==
    MaxAccounts + MaxAccounts + MaxStores + MaxRatings + a

\* CREATE TYPE public.user_role AS ENUM (...)
user_role == {"admin", "normal_user", "store_owner"}

\* length('Default Name (Please Update)')
DefaultNameLen == 28

\* Inputs the callers may send
MetaNames == {NULL, 19}
MetaRoles == {"<null>", "admin", "normal_user", "store_owner", "superuser"}
NameInputs == {20, 60}
AddressInputs == {1}
ScoreInputs == {0, 4, 5, 6}

Ids(tbl) == {r.id : r \in tbl}

(***************************************************************************)
(* Column and table constraints                                             *)
(***************************************************************************)
ProfilesNameCheck(row) == row.name # NULL /\ row.name >= 20 /\ row.name <= 60

\* a CHECK constraint passes when its expression is NULL
ProfilesAddressCheck(row) == row.address = NULL \/ row.address <= 400

\* (no unique index on profiles.user_id)
ProfilesUserIdNotUnique(row, tbl) == TRUE

ProfilesUserIdUnique(row, tbl) ==
    ~ \E p \in tbl : p.id # row.id /\ p.user_id = row.user_id

\* (a name check without the upper bound)
StoresNameCheckNoUpper(row) == row.name # NULL /\ row.name >= 20

StoresNameCheck(row) == row.name # NULL /\ row.name >= 20 /\ row.name <= 60

StoresAddressCheck(row) == row.address # NULL /\ row.address <= 400

\* (a score check that starts at 0)
RatingsRatingCheckFrom0(row) == row.rating >= 0 /\ row.rating <= 5

RatingsRatingCheck(row) == row.rating >= 1 /\ row.rating <= 5

\* (a unique index that also covers the rating column)
RatingsUniqueWithRating(row, tbl) ==
    ~ \E r \in tbl : /\ r.id # row.id
                     /\ r.user_id = row.user_id
                     /\ r.store_id = row.store_id
                     /\ r.rating = row.rating

RatingsUnique(row, tbl) ==
    ~ \E r \in tbl : /\ r.id # row.id
                     /\ r.user_id = row.user_id
                     /\ r.store_id = row.store_id

\* SQLSTATE raised by the constraints of a table for a candidate row, ""
\* when the row is acceptable.  Order as in the executor: CHECK / NOT NULL
\* first, then the unique index, then the foreign keys.
ProfilesConstraintError(row, accounts) ==
    IF ~ (ProfilesNameCheck(row) /\ ProfilesAddressCheck(row)) THEN "23514"
    ELSE IF ~ ProfilesUserIdUnique(row, profiles) THEN "23505"
    ELSE IF row.user_id \notin accounts THEN "23503"
    ELSE ""

StoresConstraintError(row) ==
    IF ~ (StoresNameCheck(row) /\ StoresAddressCheck(row)) THEN "23514"
    ELSE IF row.owner_id \notin Ids(profiles) THEN "23503"
    ELSE ""

RatingsConstraintError(row) ==
    IF ~ RatingsRatingCheck(row) THEN "23514"
    ELSE IF ~ RatingsUnique(row, ratings) THEN "23505"
    ELSE IF row.user_id \notin Ids(profiles) \/ row.store_id \notin Ids(stores)
         THEN "23503"
    ELSE ""

(***************************************************************************)
(* Row-level security                                                       *)
(***************************************************************************)
\* (row security left off on public.ratings / on public.stores)
RlsEnabledNotRatings == {"profiles", "stores"}
RlsEnabledNotStores == {"profiles", "ratings"}

\* ALTER TABLE ... ENABLE ROW LEVEL SECURITY
RlsEnabled == {"profiles", "stores", "ratings"}

\* Row security is applied to a statement on tbl unless the session is the
\* table owner (the tables are ENABLEd, not FORCEd).
RowSecurity(c, tbl) == tbl \in RlsEnabled /\ c # TableOwner

\* auth.uid() of an API session is its account identifier
auth_uid(c) == c

\* EXISTS (SELECT 1 FROM public.profiles
\*         WHERE user_id = auth.uid() AND role = 'admin')
CallerIsAdmin(c) ==
    \E p \in profiles : p.user_id = auth_uid(c) /\ p.role = "admin"

\* The policies: table, command, the relations their sub-selects read, and
\* whether a WITH CHECK / USING expression is given.
Policies ==
    { [name |-> "Users can view their own profile",
       tbl |-> "profiles", cmd |-> "SELECT", refs |-> {}],
      [name |-> "Users can update their own profile",
       tbl |-> "profiles", cmd |-> "UPDATE", refs |-> {}],
      [name |-> "Admins can view all profiles",
       tbl |-> "profiles", cmd |-> "SELECT", refs |-> {"profiles"}],
      [name |-> "Admins can insert profiles",
       tbl |-> "profiles", cmd |-> "INSERT", refs |-> {"profiles"}],
      [name |-> "Admins can update all profiles",
       tbl |-> "profiles", cmd |-> "UPDATE", refs |-> {"profiles"}],
      [name |-> "Everyone can view stores",
       tbl |-> "stores", cmd |-> "SELECT", refs |-> {}],
      [name |-> "Store owners can update their own stores",
       tbl |-> "stores", cmd |-> "UPDATE", refs |-> {"profiles"}],
      [name |-> "Admins can insert stores",
       tbl |-> "stores", cmd |-> "INSERT", refs |-> {"profiles"}],
      [name |-> "Admins can update all stores",
       tbl |-> "stores", cmd |-> "UPDATE", refs |-> {"profiles"}],
      [name |-> "Users can view all ratings",
       tbl |-> "ratings", cmd |-> "SELECT", refs |-> {}],
      [name |-> "Users can insert their own ratings",
       tbl |-> "ratings", cmd |-> "INSERT", refs |-> {"profiles"}],
      [name |-> "Users can update their own ratings",
       tbl |-> "ratings", cmd |-> "UPDATE", refs |-> {"profiles"}],
      [name |-> "Users can delete their own ratings",
       tbl |-> "ratings", cmd |-> "DELETE", refs |-> {"profiles"}] }

\* The USING / WITH CHECK expression of a policy for caller c and a row.
\* (A policy without WITH CHECK uses its USING expression for new rows.)
PolicyQual(name, c, row) ==
    CASE name = "Users can view their own profile" ->
            auth_uid(c) = row.user_id
      [] name = "Users can update their own profile" ->
            auth_uid(c) = row.user_id
      [] name = "Admins can view all profiles" -> CallerIsAdmin(c)
      [] name = "Admins can insert profiles" -> CallerIsAdmin(c)
      [] name = "Admins can update all profiles" -> CallerIsAdmin(c)
      [] name = "Everyone can view stores" -> TRUE
      [] name = "Store owners can update their own stores" ->
            \E p \in profiles :
                p.user_id = auth_uid(c) /\ p.id = row.owner_id
      [] name = "Admins can insert stores" -> CallerIsAdmin(c)
      [] name = "Admins can update all stores" -> CallerIsAdmin(c)
      [] name = "Users can view all ratings" -> TRUE
      [] name = "Users can insert their own ratings" ->
            \E p \in profiles :
                p.id = row.user_id /\ auth_uid(c) = p.user_id
      [] name = "Users can update their own ratings" ->
            \E p \in profiles :
                p.id = row.user_id /\ auth_uid(c) = p.user_id
      [] name = "Users can delete their own ratings" ->
            \E p \in profiles :
                p.id = row.user_id /\ auth_uid(c) = p.user_id

PoliciesFor(tbl, cmds) == {p \in Policies : p.tbl = tbl /\ p.cmd \in cmds}

\* Policies of one command are permissive: they are OR-ed.  No policy for
\* the command means no row passes.
Permits(tbl, cmd, c, row) ==
    \E p \in PoliciesFor(tbl, {cmd}) : PolicyQual(p.name, c, row)

\* The rewriter expands the policies of every relation a statement reads,
\* the relations read by the policies' sub-selects included (their SELECT
\* policies apply to the caller as well).  A relation whose policies have
\* sub-selects, met again while its own policies are being expanded, raises
\* "infinite recursion detected in policy for relation" (SQLSTATE 42P17).
\* (policies whose role lookup does not come back to the policies)
NoPolicyRecursion(tbl, cmds, active) == FALSE

RECURSIVE PolicyExpansionRecurses(_, _, _)
PolicyExpansionRecurses(tbl, cmds, active) ==
    LET refs == UNION {p.refs : p \in PoliciesFor(tbl, cmds)}
    IN  IF tbl \notin RlsEnabled \/ refs = {} THEN FALSE
        ELSE IF tbl \in active THEN TRUE
        ELSE \E t \in refs :
                PolicyExpansionRecurses(t, {"SELECT"}, active \cup {tbl})

\* The commands whose policies a statement is subject to: UPDATE and DELETE
\* with a WHERE clause read the rows, so the SELECT policies apply too.
StmtCmds(cmd) ==
    IF cmd \in {"UPDATE", "DELETE"} THEN {cmd, "SELECT"} ELSE {cmd}

RewriteError(c, tbl, cmd) ==
    IF RowSecurity(c, tbl) /\ PolicyExpansionRecurses(tbl, StmtCmds(cmd), {})
    THEN "42P17" ELSE ""

\* Rows of tbl a statement of command cmd by c may touch (USING)
Visible(c, tbl, cmd, row) ==
    RowSecurity(c, tbl) =>
        \A k \in StmtCmds(cmd) : Permits(tbl, k, c, row)

\* New rows a statement may write (WITH CHECK)
Writable(c, tbl, cmd, row) ==
    RowSecurity(c, tbl) =>
        \A k \in StmtCmds(cmd) : Permits(tbl, k, c, row)

(***************************************************************************)
(* Statements.  Each yields the SQLSTATE ("" on success), the number of     *)
(* rows affected and the table after the statement.                         *)
(***************************************************************************)
Outcome(err, n, tbl) == [err |-> err, n |-> n, tbl |-> tbl]

ConstraintError(tblname, row) ==
    CASE tblname = "profiles" -> ProfilesConstraintError(row, users)
      [] tblname = "stores" -> StoresConstraintError(row)
      [] tblname = "ratings" -> RatingsConstraintError(row)

\* INSERT INTO tblname VALUES (row)
InsertStmt(c, tblname, tbl, row) ==
    IF RewriteError(c, tblname, "INSERT") # ""
    THEN Outcome(RewriteError(c, tblname, "INSERT"), 0, tbl)
    ELSE IF ~ Writable(c, tblname, "INSERT", row)
    THEN Outcome("42501", 0, tbl)
    ELSE IF ConstraintError(tblname, row) # ""
    THEN Outcome(ConstraintError(tblname, row), 0, tbl)
    ELSE Outcome("", 1, tbl \cup {row})

\* UPDATE tblname SET (...) = new WHERE id = new.id
UpdateStmt(c, tblname, tbl, new) ==
    LET olds == {r \in tbl : r.id = new.id /\ Visible(c, tblname, "UPDATE", r)}
    IN  IF RewriteError(c, tblname, "UPDATE") # ""
        THEN Outcome(RewriteError(c, tblname, "UPDATE"), 0, tbl)
        ELSE IF olds = {} THEN Outcome("", 0, tbl)
        ELSE IF ~ Writable(c, tblname, "UPDATE", new)
        THEN Outcome("42501", 0, tbl)
        ELSE IF ConstraintError(tblname, new) # ""
        THEN Outcome(ConstraintError(tblname, new), 0, tbl)
        ELSE Outcome("", 1, (tbl \ olds) \cup {new})

\* DELETE FROM tblname WHERE id = id
DeleteStmt(c, tblname, tbl, id) ==
    LET olds == {r \in tbl : r.id = id /\ Visible(c, tblname, "DELETE", r)}
    IN  IF RewriteError(c, tblname, "DELETE") # ""
        THEN Outcome(RewriteError(c, tblname, "DELETE"), 0, tbl)
        ELSE Outcome("", Cardinality(olds), tbl \ olds)

\* SELECT * FROM tblname
SelectStmt(c, tblname, tbl) ==
    IF RewriteError(c, tblname, "SELECT") # ""
    THEN Outcome(RewriteError(c, tblname, "SELECT"), 0, {})
    ELSE Outcome("", 0, {r \in tbl : Visible(c, tblname, "SELECT", r)})

(***************************************************************************)
(* The store_ratings view                                                   *)
(***************************************************************************)
NullRating == [id |-> NULL, user_id |-> NULL, store_id |-> NULL, rating |-> NULL]

\* FROM public.stores s LEFT JOIN public.ratings r ON s.id = r.store_id
StoresLeftJoinRatings ==
    {j \in [s : stores, r : ratings] : j.s.id = j.r.store_id}
    \cup
    {[s |-> s, r |-> NullRating] :
        s \in {x \in stores : ~ \E y \in ratings : y.store_id = x.id}}

RECURSIVE SumRating(_)
SumRating(js) ==
    IF js = {} THEN 0
    ELSE LET j == CHOOSE x \in js : TRUE
         IN  j.r.rating + SumRating(js \ {j})

RECURSIVE Gcd(_, _)
Gcd(a, b) == IF b = 0 THEN a ELSE Gcd(b, a % b)

\* the NULL of type numeric
NullNumeric == [num |-> NULL, den |-> NULL]

\* A numeric value as a fraction in lowest terms
Numeric(n, d) == [num |-> n \div Gcd(n, d), den |-> d \div Gcd(n, d)]

\* AVG(r.rating) over a group: NULL inputs are skipped, NULL on no input
Avg(js) ==
    LET nn == {j \in js : j.r.rating # NULL}
    IN  IF nn = {} THEN NullNumeric ELSE Numeric(SumRating(nn), Cardinality(nn))

\* (COUNT(*) instead of COUNT(r.id))
CountStar(js) == Cardinality(js)

\* COUNT(r.id): the rows of the group whose r.id is not NULL
CountId(js) == Cardinality({j \in js : j.r.id # NULL})

\* COALESCE(x, 0)
Coalesce0(x) == IF x = NullNumeric THEN Numeric(0, 1) ELSE x

\* GROUP BY s.id, s.owner_id, s.name, s.email, s.address, ...: one output
\* row per distinct combination of the store columns in the join
store_ratings ==
    { [id |-> g.id, owner_id |-> g.owner_id, name |-> g.name,
       address |-> g.address,
       average_rating |->
           Coalesce0(Avg({j \in StoresLeftJoinRatings : j.s = g})),
       total_ratings |-> CountId({j \in StoresLeftJoinRatings : j.s = g})] :
      g \in {j.s : j \in StoresLeftJoinRatings} }

(***************************************************************************)
(* Registration and the handle_new_user trigger                             *)
(***************************************************************************)
\* Accounts have one e-mail address each
EmailOf(a) == a

\* (text)::public.user_role : NULL stays NULL, a label of the enum is that
\* value, any other text raises invalid_text_representation
RoleCastFails(txt) == txt # "<null>" /\ txt \notin user_role

\* (the inserted row without the COALESCE defaults)
NewUserProfileNoCoalesce(newrow, id) ==
    [id |-> id,
     user_id |-> newrow.id,
     name |-> newrow.raw_user_meta_data.name,
     email |-> newrow.email,
     address |-> NULL,
     role |-> newrow.raw_user_meta_data.role]

\* The row the trigger inserts for the new auth.users row NEW (newrow)
NewUserProfile(newrow, id) ==
    [id |-> id,
     user_id |-> newrow.id,
     name |-> IF newrow.raw_user_meta_data.name = NULL
              THEN DefaultNameLen ELSE newrow.raw_user_meta_data.name,
     email |-> newrow.email,
     address |-> NULL,
     role |-> IF newrow.raw_user_meta_data.role = "<null>"
              THEN "normal_user" ELSE newrow.raw_user_meta_data.role]

\* id UUID DEFAULT gen_random_uuid(): an identifier no stored profile has
FreshProfileId(a) ==
    LET cand == {ProfileIdOf(a)}
                \cup {SecondProfileIdOf(a) + k * MaxAccounts :
                         k \in 0..(MaxAccounts - 1)}
        free == cand \ Ids(profiles)
    IN  CHOOSE i \in free : \A j \in free : i <= j

\* (a hook that replaces the account's stored profile: ON CONFLICT (user_id)
\* DO UPDATE)
handle_new_user_upsert(newrow) ==
    IF RoleCastFails(newrow.raw_user_meta_data.role)
    THEN Outcome("22P02", 0, profiles)
    ELSE LET row == NewUserProfile(newrow, FreshProfileId(newrow.id))
         IN  Outcome("", 1, {p \in profiles : p.user_id # newrow.id}
                               \cup {row})

\* SECURITY DEFINER: the insert runs as the function's owner, which owns
\* public.profiles, so no policy applies.  The trigger fires AFTER INSERT
\* ON auth.users: the new account row is visible to the foreign key.
handle_new_user(newrow) ==
    IF RoleCastFails(newrow.raw_user_meta_data.role)
    THEN Outcome("22P02", 0, profiles)
    ELSE LET row == NewUserProfile(newrow, FreshProfileId(newrow.id))
             err == ProfilesConstraintError(row, users \cup {newrow.id})
         IN  IF err # "" THEN Outcome(err, 0, profiles)
             ELSE Outcome("", 1, profiles \cup {row})

(***************************************************************************)
(* What the last statement was and how it ended                             *)
(***************************************************************************)
Last(op, c, out) ==
    [op |-> op, caller |-> c, err |-> out.err, n |-> out.n,
     rows |-> IF op = "select profiles" THEN Ids(out.tbl) ELSE {}]

Callers == users \cup {TableOwner}

(***************************************************************************)
(* Actions of the database                                                  *)
(***************************************************************************)
\* INSERT INTO auth.users fires on_auth_user_created in the same
\* transaction: an error in the trigger aborts the registration.
Register(a, mname, mrole) ==
    LET newrow == [id |-> a, email |-> EmailOf(a),
                   raw_user_meta_data |-> [name |-> mname, role |-> mrole]]
        out == handle_new_user(newrow)
    IN  /\ a \notin users
        /\ users' = IF out.err = "" THEN users \cup {a} ELSE users
        /\ profiles' = out.tbl
        /\ last' = Last("register", a, out)
        /\ UNCHANGED <<stores, ratings, nextId, sess>>

InsertProfile(c, row) ==
    LET out == InsertStmt(c, "profiles", profiles, row)
    IN  /\ profiles' = out.tbl
        /\ last' = Last("insert profiles", c, out)
        /\ UNCHANGED <<users, stores, ratings, nextId, sess>>

UpdateProfile(c, new) ==
    LET out == UpdateStmt(c, "profiles", profiles, new)
    IN  /\ profiles' = out.tbl
        /\ last' = Last("update profiles", c, out)
        /\ UNCHANGED <<users, stores, ratings, nextId, sess>>

SelectProfiles(c) ==
    LET out == SelectStmt(c, "profiles", profiles)
    IN  /\ last' = Last("select profiles", c, out)
        /\ UNCHANGED <<dbvars, sess>>

InsertStore(c, row) ==
    LET out == InsertStmt(c, "stores", stores, row)
    IN  /\ nextId.stores < MaxStores
        /\ stores' = out.tbl
        /\ nextId' = [nextId EXCEPT !.stores = @ + out.n]
        /\ last' = Last("insert stores", c, out)
        /\ UNCHANGED <<users, profiles, ratings, sess>>

UpdateStore(c, new) ==
    LET out == UpdateStmt(c, "stores", stores, new)
    IN  /\ stores' = out.tbl
        /\ last' = Last("update stores", c, out)
        /\ UNCHANGED <<users, profiles, ratings, nextId, sess>>

InsertRating(c, row) ==
    LET out == InsertStmt(c, "ratings", ratings, row)
    IN  /\ nextId.ratings < MaxRatings
        /\ ratings' = out.tbl
        /\ nextId' = [nextId EXCEPT !.ratings = @ + out.n]
        /\ last' = Last("insert ratings", c, out)
        /\ UNCHANGED <<users, profiles, stores, sess>>

UpdateRating(c, new) ==
    LET out == UpdateStmt(c, "ratings", ratings, new)
    IN  /\ ratings' = out.tbl
        /\ last' = Last("update ratings", c, out)
        /\ UNCHANGED <<users, profiles, stores, nextId, sess>>

DeleteRating(c, row) ==
    LET out == DeleteStmt(c, "ratings", ratings, row.id)
    IN  /\ ratings' = out.tbl
        /\ last' = Last("delete ratings", c, out)
        /\ UNCHANGED <<users, profiles, stores, nextId, sess>>

(***************************************************************************)
(* Rows the callers may send                                                *)
(***************************************************************************)
\* a new profile for account u
ProfileRows(roles) ==
    {[id |-> ProfileIdOf(u), user_id |-> u, name |-> DefaultNameLen,
      email |-> EmailOf(u), address |-> NULL, role |-> r] :
        u \in AccountIds, r \in roles}

\* UPDATE profiles SET name = .. / SET role = .. WHERE id = p.id
ProfileUpdates(p) ==
    {[p EXCEPT !.name = x] : x \in NameInputs}
    \cup {[p EXCEPT !.role = x] : x \in user_role}

StoreRows ==
    [id : {StoreIdOf(nextId.stores + 1)}, owner_id : Ids(profiles),
     name : {20}, address : AddressInputs]

\* UPDATE stores SET name = .. / SET owner_id = .. WHERE id = s.id
StoreUpdates(s) ==
    {[s EXCEPT !.name = x] : x \in NameInputs}
    \cup {[s EXCEPT !.owner_id = x] : x \in Ids(profiles)}

RatingRows ==
    [id : {RatingIdOf(nextId.ratings + 1)}, user_id : Ids(profiles),
     store_id : Ids(stores), rating : ScoreInputs]

\* UPDATE ratings SET rating = .. / SET store_id = .. / SET user_id = ..
\* WHERE id = r.id
RatingUpdates(r) ==
    {[r EXCEPT !.rating = x] : x \in ScoreInputs}
    \cup {[r EXCEPT !.store_id = x] : x \in Ids(stores)}
    \cup {[r EXCEPT !.user_id = x] : x \in Ids(profiles)}

(***************************************************************************)
(* The database after the migrations                                        *)
(***************************************************************************)
NoLast == [op |-> "none", caller |-> NULL, err |-> "", n |-> 0, rows |-> {}]

Init ==
    /\ users = {}
    /\ profiles = {}
    /\ stores = {}
    /\ ratings = {}
    /\ nextId = [stores |-> 0, ratings |-> 0]
    /\ last = NoLast
    /\ sess = <<>>


(***************************************************************************)
(* Spec: the stored rows.  Accounts register without metadata, the table    *)
(* owner seeds stores, and every session writes ratings.                    *)
(***************************************************************************)
Next ==
    \/ \E a \in AccountIds : Register(a, NULL, "<null>")
    \/ \E row \in StoreRows : InsertStore(TableOwner, row)
    \/ \E c \in Callers, row \in RatingRows : InsertRating(c, row)
    \/ \E c \in Callers, r \in ratings : \E row \in RatingUpdates(r) :
          UpdateRating(c, row)
    \/ \E c \in Callers, r \in ratings : DeleteRating(c, r)

Spec == Init /\ [][Next]_vars

(***************************************************************************)
(* The UserDashboard component.  One record per browser session that shows  *)
(* it; useAuth() supplies the signed-in account's profile.                  *)
(***************************************************************************)
Sessions == 1..MaxSessions

\* stars the user may click
StarInputs == {4, 5}

NoRequest == [kind |-> "none", id |-> NULL, store_id |-> NULL, rating |-> 0]

\* the component as constructed (its useState initial values) for a session
\* signed in as account a
NewSession(a, profile) ==
    [account |-> a,
     profile |-> profile,
     stores |-> {},
     userRatings |-> {},
     loading |-> TRUE,
     selectedStore |-> NULL,
     newRating |-> 0,
     ratingDialogOpen |-> FALSE,
     mounted |-> FALSE,
     pending |-> {},
     req |-> NoRequest,
     toast |-> "none",
     result |-> [kind |-> "none", store_id |-> NULL, rating |-> 0, err |-> ""],
     raced |-> FALSE,
     dupFailed |-> NULL,
     retried |-> FALSE]

\* fetchData: if (!profile) return; setLoading(true); both fetches start
fetchData(ss) ==
    IF ss.profile = NULL THEN ss
    ELSE [ss EXCEPT !.loading = TRUE, !.pending = {"stores", "ratings"}]

\* (setLoading(false) as soon as one fetch has completed)
FetchDoneEarly(ss, which) ==
    [ss EXCEPT !.pending = @ \ {which}, !.loading = FALSE]

\* a fetch has completed; when it was the last one of the Promise.all,
\* setLoading(false) runs
FetchDone(ss, which) ==
    [ss EXCEPT !.pending = @ \ {which},
               !.loading = IF ss.pending \ {which} = {} THEN FALSE ELSE @]

\* userRatings.find(r => r.store_id === storeId)
FindRating(userRatings, storeId) == {r \in userRatings : r.store_id = storeId}

\* useEffect(() => { fetchData(); }, [profile])
Mount(s) ==
    /\ ~ sess[s].mounted
    /\ sess' = [sess EXCEPT ![s] = fetchData([sess[s] EXCEPT !.mounted = TRUE])]
    /\ UNCHANGED <<dbvars, last>>

\* fetchStores after its await: the answer (data, error) is handled
fetchStores(ss, data, err) ==
    FetchDone(IF err # ""
              THEN [ss EXCEPT !.toast = "Failed to fetch stores"]
              ELSE [ss EXCEPT !.stores = data],
              "stores")

\* fetchUserRatings after its await: the answer (data, error) is handled
fetchUserRatings(ss, data, err) ==
    FetchDone(IF err # ""
              THEN [ss EXCEPT !.toast = "Failed to fetch ratings"]
              ELSE [ss EXCEPT !.userRatings = data],
              "ratings")

\* fetchStores: supabase.from('store_ratings').select('*') answered.  The
\* view runs with its owner's rights: the read is not subject to policies.
FetchStoresResponse(s) ==
    /\ "stores" \in sess[s].pending
    /\ sess' = [sess EXCEPT ![s] = fetchStores(sess[s], store_ratings, "")]
    /\ UNCHANGED <<dbvars, last>>

\* fetchUserRatings: .from('ratings').select('*').eq('user_id', profile.id)
FetchUserRatingsResponse(s) ==
    LET out == SelectStmt(sess[s].account, "ratings", ratings)
        data == {r \in out.tbl : r.user_id = sess[s].profile}
    IN  /\ "ratings" \in sess[s].pending
        /\ sess' = [sess EXCEPT ![s] = fetchUserRatings(sess[s], data, out.err)]
        /\ UNCHANGED <<dbvars, last>>

\* openRatingDialog(store), from a card of the rendered store list
OpenRatingDialog(s, store) ==
    LET existing == FindRating(sess[s].userRatings, store.id)
    IN  /\ sess[s].mounted
        /\ ~ sess[s].loading
        /\ ~ sess[s].ratingDialogOpen
        /\ store \in sess[s].stores
        /\ sess' = [sess EXCEPT
                      ![s].selectedStore = store.id,
                      ![s].newRating =
                          IF existing = {} THEN 0
                          ELSE (CHOOSE r \in existing : TRUE).rating,
                      ![s].ratingDialogOpen = TRUE]
        /\ UNCHANGED <<dbvars, last>>

\* a click on a star of the dialog: setNewRating(star)
SetNewRating(s, star) ==
    /\ sess[s].ratingDialogOpen
    /\ sess[s].req.kind = "none"
    /\ sess[s].newRating # star
    /\ sess' = [sess EXCEPT ![s].newRating = star]
    /\ UNCHANGED <<dbvars, last>>

\* how a read may end for the client: answered, or failed
FetchErrors == {"", "FetchError"}

\* another session's insert for the same (rater, store) is in flight
InFlightInsertFor(s, profile, storeId) ==
    {t \in Sessions \ {s} : /\ sess[t].req.kind = "insert"
                            /\ sess[t].profile = profile
                            /\ sess[t].req.store_id = storeId}

\* handleSubmitRating up to its await: the request is sent
HandleSubmitRating(s) ==
    LET ss == sess[s]
        existing == FindRating(ss.userRatings, ss.selectedStore)
        req == IF existing # {}
               THEN [kind |-> "update",
                     id |-> (CHOOSE r \in existing : TRUE).id,
                     store_id |-> ss.selectedStore, rating |-> ss.newRating]
               ELSE [kind |-> "insert", id |-> NULL,
                     store_id |-> ss.selectedStore, rating |-> ss.newRating]
        rivals == IF req.kind = "insert"
                  THEN InFlightInsertFor(s, ss.profile, ss.selectedStore)
                  ELSE {}
    IN  /\ ss.ratingDialogOpen
        /\ ss.req.kind = "none"
        /\ ~ (ss.selectedStore = NULL \/ ss.profile = NULL \/ ss.newRating = 0)
        /\ sess' = [t \in Sessions |->
                      IF t = s
                      THEN [ss EXCEPT
                              !.req = req,
                              !.raced = rivals # {},
                              !.retried =
                                 /\ req.kind = "insert"
                                 /\ ss.dupFailed = ss.selectedStore
                                 /\ \E r \in ratings :
                                       /\ r.user_id = ss.profile
                                       /\ r.store_id = ss.selectedStore]
                      ELSE IF t \in rivals
                      THEN [sess[t] EXCEPT !.raced = TRUE]
                      ELSE sess[t]]
        /\ UNCHANGED <<dbvars, last>>

\* the statement of the request in flight, run by the database
RequestOutcome(ss) ==
    IF ss.req.kind = "update"
    THEN LET cur == {r \in ratings : r.id = ss.req.id}
             new == IF cur = {}
                    THEN [id |-> ss.req.id, user_id |-> NULL,
                          store_id |-> NULL, rating |-> ss.req.rating]
                    ELSE [(CHOOSE r \in cur : TRUE) EXCEPT
                             !.rating = ss.req.rating]
         IN  UpdateStmt(ss.account, "ratings", ratings, new)
    ELSE InsertStmt(ss.account, "ratings", ratings,
                    [id |-> RatingIdOf(nextId.ratings + 1),
                     user_id |-> ss.profile,
                     store_id |-> ss.req.store_id,
                     rating |-> ss.req.rating])

\* handleSubmitRating after its await: the statement has run and the
\* response is handled
SubmitResponse(s) ==
    LET ss == sess[s]
        out == RequestOutcome(ss)
        answered == [ss EXCEPT
                       !.req = NoRequest,
                       !.result = [kind |-> ss.req.kind,
                                   store_id |-> ss.req.store_id,
                                   rating |-> ss.req.rating,
                                   err |-> out.err],
                       !.dupFailed =
                          IF /\ ss.req.kind = "insert"
                             /\ out.err # ""
                             /\ \E r \in ratings :
                                   /\ r.user_id = ss.profile
                                   /\ r.store_id = ss.req.store_id
                          THEN ss.req.store_id ELSE NULL]
    IN  /\ ss.req.kind # "none"
        /\ ss.req.kind = "insert" => nextId.ratings < MaxRatings
        /\ ratings' = out.tbl
        /\ nextId' = IF ss.req.kind = "insert"
                     THEN [nextId EXCEPT !.ratings = @ + out.n] ELSE nextId
        /\ sess' = [sess EXCEPT ![s] =
                      IF out.err # ""
                      THEN [answered EXCEPT
                              !.toast = IF ss.req.kind = "update"
                                        THEN "Failed to update rating"
                                        ELSE "Failed to submit rating"]
                      ELSE fetchData(
                             [answered EXCEPT
                                !.toast = IF ss.req.kind = "update"
                                          THEN "Rating updated successfully"
                                          ELSE "Rating submitted successfully",
                                !.ratingDialogOpen = FALSE])]
        /\ UNCHANGED <<users, profiles, stores, last>>

(***************************************************************************)
(* SpecClient: sessions of one registered account on the dashboard, next to *)
(* the table owner writing ratings.  It starts from the database after      *)
(* Register(1, NULL, "<null>") and the owner's insert of one store.         *)
(***************************************************************************)
ClientAccount == 1

InitClient ==
    /\ users = {ClientAccount}
    /\ profiles = {NewUserProfile([id |-> ClientAccount,
                                   email |-> EmailOf(ClientAccount),
                                   raw_user_meta_data |->
                                       [name |-> NULL, role |-> "<null>"]],
                                  ProfileIdOf(ClientAccount))}
    /\ stores = {[id |-> StoreIdOf(1), owner_id |-> ProfileIdOf(ClientAccount),
                  name |-> 20, address |-> 1]}
    /\ ratings = {}
    /\ nextId = [stores |-> 1, ratings |-> 0]
    /\ last = [op |-> "insert stores", caller |-> TableOwner, err |-> "",
               n |-> 1, rows |-> {}]
    /\ sess = [s \in Sessions |->
                 NewSession(ClientAccount, ProfileIdOf(ClientAccount))]

NextClient ==
    \/ \E s \in Sessions : Mount(s)
    \/ \E s \in Sessions : FetchStoresResponse(s)
    \/ \E s \in Sessions : FetchUserRatingsResponse(s)
    \/ \E s \in Sessions, store \in store_ratings : OpenRatingDialog(s, store)
    \/ \E s \in Sessions, star \in StarInputs : SetNewRating(s, star)
    \/ \E s \in Sessions : HandleSubmitRating(s)
    \/ \E s \in Sessions : SubmitResponse(s)
    \/ \E row \in RatingRows : InsertRating(TableOwner, row)
    \/ \E r \in ratings : DeleteRating(TableOwner, r)

SpecClient == InitClient /\ [][NextClient]_vars

(***************************************************************************)
(* SpecPolicy: the row-level security policies.  Accounts register with a   *)
(* role, the table owner seeds stores and ratings, and the API sessions     *)
(* (one per registered account) send statements on the three tables.        *)
(***************************************************************************)
NextPolicy ==
    \/ \E a \in AccountIds, mrole \in MetaRoles : Register(a, NULL, mrole)
    \/ \E c \in users, row \in ProfileRows({"admin"}) : InsertProfile(c, row)
    \/ \E c \in users, p \in profiles : \E row \in ProfileUpdates(p) :
          UpdateProfile(c, row)
    \/ \E c \in users : SelectProfiles(c)
    \/ \E c \in Callers, row \in StoreRows :
          /\ nextId.stores < SeedStores
          /\ InsertStore(c, row)
    \/ \E c \in users, s \in stores : \E row \in StoreUpdates(s) :
          UpdateStore(c, row)
    \/ \E c \in Callers, row \in RatingRows :
          /\ nextId.ratings < SeedRatings
          /\ InsertRating(c, row)
    \/ \E c \in users, r \in ratings : \E row \in RatingUpdates(r) :
          UpdateRating(c, row)
    \/ \E c \in users, r \in ratings : DeleteRating(c, r)

SpecPolicy == Init /\ [][NextPolicy]_vars

(***************************************************************************)
(* Deletes.  The foreign keys are ON DELETE CASCADE: removing an account    *)
(* removes its profile, removing a profile removes the stores it owns and   *)
(* the ratings it authored, removing a store removes its ratings.  The      *)
(* cascade runs inside the deleting statement and is not subject to the     *)
(* policies.                                                                *)
(***************************************************************************)
\* (a foreign key that does not cascade to the referencing stores)
NoStoresOwnedBy(pids) == {}

\* profiles.user_id REFERENCES auth.users(id) ON DELETE CASCADE
ProfilesOfAccounts(accounts) == {p \in profiles : p.user_id \in accounts}

\* stores.owner_id REFERENCES public.profiles(id) ON DELETE CASCADE
StoresOwnedBy(pids) == {s \in stores : s.owner_id \in pids}

\* ratings.user_id REFERENCES public.profiles(id) ON DELETE CASCADE
\* ratings.store_id REFERENCES public.stores(id) ON DELETE CASCADE
RatingsReferencing(pids, sids) ==
    {r \in ratings : r.user_id \in pids \/ r.store_id \in sids}

\* the stores and ratings removed together with the profile rows gone
CascadeFromProfiles(gone) ==
    LET sgone == StoresOwnedBy(Ids(gone))
    IN  [stores |-> sgone,
         ratings |-> RatingsReferencing(Ids(gone), Ids(sgone))]

\* DELETE FROM auth.users WHERE id = a.  Once the account and every row
\* that referred to it are gone nothing in the database tells its
\* identifier from a new one.
DeleteUser(a) ==
    LET gone == ProfilesOfAccounts({a})
        casc == CascadeFromProfiles(gone)
    IN  /\ a \in users
        /\ users' = users \ {a}
        /\ profiles' = profiles \ gone
        /\ stores' = stores \ casc.stores
        /\ ratings' = ratings \ casc.ratings
        /\ last' = [op |-> "delete users", caller |-> a, err |-> "", n |-> 1,
                    rows |-> Ids(gone) \cup Ids(casc.stores)
                                \cup Ids(casc.ratings)]
        /\ UNCHANGED <<nextId, sess>>

\* DELETE FROM public.profiles WHERE id = p.id
DeleteProfile(c, p) ==
    LET out == DeleteStmt(c, "profiles", profiles, p.id)
        casc == CascadeFromProfiles(profiles \ out.tbl)
    IN  /\ profiles' = out.tbl
        /\ stores' = stores \ casc.stores
        /\ ratings' = ratings \ casc.ratings
        /\ last' = [Last("delete profiles", c, out) EXCEPT
                       !.rows = Ids(casc.stores) \cup Ids(casc.ratings)]
        /\ UNCHANGED <<users, nextId, sess>>

\* DELETE FROM public.stores WHERE id = s.id
DeleteStore(c, s) ==
    LET out == DeleteStmt(c, "stores", stores, s.id)
        rgone == RatingsReferencing({}, Ids(stores \ out.tbl))
    IN  /\ stores' = out.tbl
        /\ ratings' = ratings \ rgone
        /\ last' = [Last("delete stores", c, out) EXCEPT !.rows = Ids(rgone)]
        /\ UNCHANGED <<users, profiles, nextId, sess>>

\* handle_new_user run once more for an account that is registered already
\* (the same account event delivered twice)
RedeliverNewUser(a, mname, mrole) ==
    LET newrow == [id |-> a, email |-> EmailOf(a),
                   raw_user_meta_data |-> [name |-> mname, role |-> mrole]]
        out == handle_new_user(newrow)
    IN  /\ a \in users
        /\ profiles' = out.tbl
        /\ last' = Last("redeliver", a, out)
        /\ UNCHANGED <<users, stores, ratings, nextId, sess>>

\* UPDATE profiles SET user_id = .. WHERE id = p.id
ProfileRepoints(p) == {[p EXCEPT !.user_id = a] : a \in AccountIds \ {p.user_id}}

(***************************************************************************)
(* SpecDelete: accounts, profiles, stores and ratings come and go.  The     *)
(* table owner writes directly; the API sessions send deletes.              *)
(***************************************************************************)
NextDelete ==
    \/ \E a \in AccountIds : Register(a, NULL, "<null>")
    \/ \E a \in AccountIds, mname \in MetaNames :
          RedeliverNewUser(a, mname, "<null>")
    \/ \E a \in AccountIds : DeleteUser(a)
    \/ \E c \in Callers, p \in profiles : DeleteProfile(c, p)
    \/ \E c \in Callers, s \in stores : DeleteStore(c, s)
    \/ \E c \in users, r \in ratings : DeleteRating(c, r)
    \/ \E p \in profiles : \E row \in ProfileRepoints(p) :
          UpdateProfile(TableOwner, row)
    \/ \E row \in StoreRows : InsertStore(TableOwner, row)
    \/ \E row \in {x \in RatingRows : RatingsRatingCheck(x)} :
          InsertRating(TableOwner, row)

SpecDelete == Init /\ [][NextDelete]_vars

(***************************************************************************)
(* SpecRows: the lengths of the stored texts.  Accounts register with or    *)
(* without a name; the table owner and the API sessions insert and update   *)
(* profiles and stores with texts at and beyond the bounds.                 *)
(***************************************************************************)
NameAny == {19, 20, 60, 61}
AddressAny == {0, 400, 401}

ProfileRowsAny ==
    {[row EXCEPT !.name = x] :
        row \in ProfileRows({"normal_user"}), x \in {19, DefaultNameLen}}

\* UPDATE profiles SET name = .. / SET address = .. WHERE id = p.id
ProfileEdits(p) ==
    {[p EXCEPT !.name = x] : x \in NameAny}
    \cup {[p EXCEPT !.address = x] : x \in AddressAny \cup {NULL}}

StoreRowsAny ==
    [id : {StoreIdOf(nextId.stores + 1)}, owner_id : Ids(profiles),
     name : NameAny, address : AddressAny]

\* UPDATE stores SET name = .. / SET address = .. WHERE id = s.id
StoreEdits(s) ==
    {[s EXCEPT !.name = x] : x \in NameAny}
    \cup {[s EXCEPT !.address = x] : x \in AddressAny}

NextRows ==
    \/ \E a \in AccountIds, mname \in MetaNames :
          /\ Cardinality(users) < SeedAccounts
          /\ Register(a, mname, "<null>")
    \/ \E c \in Callers, row \in ProfileRowsAny : InsertProfile(c, row)
    \/ \E c \in Callers, p \in profiles : \E row \in ProfileEdits(p) :
          UpdateProfile(c, row)
    \/ \E c \in Callers, row \in StoreRowsAny :
          /\ nextId.stores < SeedStores
          /\ InsertStore(c, row)
    \/ \E c \in Callers, s \in stores : \E row \in StoreEdits(s) :
          UpdateStore(c, row)

SpecRows == Init /\ [][NextRows]_vars

(***************************************************************************)
(* Properties                                                               *)
(***************************************************************************)
RECURSIVE SumScores(_)
SumScores(rs) ==
    IF rs = {} THEN 0
    ELSE LET r == CHOOSE x \in rs : TRUE IN r.rating + SumScores(rs \ {r})

RatingsOf(s) == {r \in ratings : r.store_id = s.id}

\* the profile row of an account, as a set (empty when it has none)
ProfileOf(a) == {p \in profiles : p.user_id = a}

\* C1: in every reachable state there is at most one Rating row for each
\* (rater profile, store) pair, whatever inserts, updates (also of the store
\* of a rating) and deletes the callers have issued.
OneRatingPerRaterAndStore ==
    \A r1 \in ratings : \A r2 \in ratings :
        (r1.user_id = r2.user_id /\ r1.store_id = r2.store_id) => r1.id = r2.id

\* C1 witness: an update that moves a rating to a store the rater has
\* already rated was rejected as a duplicate.
MoveOntoRatedStoreRejected ==
    /\ last.op = "update ratings"
    /\ last.err = "23505"
    /\ \E r1 \in ratings : \E r2 \in ratings :
          r1.user_id = r2.user_id /\ r1.store_id # r2.store_id

\* C4: the store_ratings view has exactly one row per store; its
\* total_ratings is the number of Rating rows of the store and its
\* average_rating is the mean of their scores, 0 when there are none.
StoreRatingsIsMeanAndCount ==
    /\ \A v \in store_ratings : \E s \in stores : s.id = v.id
    /\ \A s \in stores :
         /\ Cardinality({v \in store_ratings : v.id = s.id}) = 1
         /\ \A v \in store_ratings :
              v.id = s.id =>
                /\ v.total_ratings = Cardinality(RatingsOf(s))
                /\ IF RatingsOf(s) = {}
                   THEN v.average_rating.num = 0
                   ELSE v.average_rating.num * Cardinality(RatingsOf(s))
                          = SumScores(RatingsOf(s)) * v.average_rating.den

\* C4 witness: one store rated 4 and 5 (mean 9/2, two ratings) next to a
\* store without ratings.
MeanOfTwoAndEmptyStore ==
    /\ \E v \in store_ratings :
          v.total_ratings = 2 /\ v.average_rating = [num |-> 9, den |-> 2]
    /\ \E s \in stores : RatingsOf(s) = {}

\* the Rating rows of a (rater, store) pair in a ratings table
PairRows(tbl, profile, storeId) ==
    {r \in tbl : r.user_id = profile /\ r.store_id = storeId}

\* C2 (as claimed): when the inserts of two sessions for the same (rater,
\* store) pair were in flight at the same time and both have been answered,
\* exactly one of them succeeded and the other failed with the unique
\* violation 23505.
ConcurrentInsertsOneWins ==
    \A s1 \in Sessions : \A s2 \in Sessions \ {s1} :
        (/\ sess[s1].raced /\ sess[s2].raced
         /\ sess[s1].req.kind = "none" /\ sess[s2].req.kind = "none"
         /\ sess[s1].result.kind = "insert" /\ sess[s2].result.kind = "insert"
         /\ sess[s1].profile = sess[s2].profile
         /\ sess[s1].result.store_id = sess[s2].result.store_id)
        => \/ sess[s1].result.err = "" /\ sess[s2].result.err = "23505"
           \/ sess[s2].result.err = "" /\ sess[s1].result.err = "23505"

\* C3 (as claimed): a session whose insert failed while a row for its
\* (rater, store) pair existed does not send an insert for that pair again
\* while the row is there: its next submission is an update.
FailedDuplicateInsertNotRetried ==
    \A s \in Sessions : ~ sess[s].retried

\* C5 (as claimed): when handleSubmitRating's update of the rater's existing
\* rating for store X with score v has been answered, exactly one Rating
\* row remains for (rater, X) and its score is v.
UpsertLeavesOneRowWithScore ==
    [][\A s \in Sessions :
          (/\ SubmitResponse(s)
           /\ sess[s].req.kind = "update"
           /\ \E r \in PairRows(ratings, sess[s].profile, sess[s].req.store_id) :
                 r.id = sess[s].req.id)
          => /\ Cardinality(PairRows(ratings', sess[s].profile,
                                     sess[s].req.store_id)) = 1
             /\ \A r \in PairRows(ratings', sess[s].profile,
                                  sess[s].req.store_id) :
                   r.rating = sess[s].req.rating]_vars

RoleOf(a) == {p.role : p \in ProfileOf(a)}

\* C6 (as claimed): an update of a Profile row by an API session takes
\* effect if and only if the caller is an admin or the row is the caller's
\* own.
ProfileUpdateIffAdminOrOwn ==
    [][\A c \in users : \A p \in profiles : \A new \in ProfileUpdates(p) :
          (new # p /\ UpdateProfile(c, new)) =>
             ((profiles' = (profiles \ {p}) \cup {new})
                <=> (CallerIsAdmin(c) \/ p.user_id = auth_uid(c)))]_vars

\* C7 (as claimed): an update of a Store row by an API session takes effect
\* if and only if the caller is an admin or the caller's profile owns the
\* store.
StoreUpdateIffAdminOrOwner ==
    [][\A c \in users : \A s \in stores : \A new \in StoreUpdates(s) :
          (new # s /\ UpdateStore(c, new)) =>
             ((stores' = (stores \ {s}) \cup {new})
                <=> (CallerIsAdmin(c) \/ s.owner_id \in Ids(ProfileOf(c))))]_vars

\* C8: an API session, whatever its role, never inserts a rating naming
\* another profile as rater (the insert is rejected), and its update or
\* delete of another rater's rating leaves that rating as it was; every
\* rating row an API session's statement adds, changes or removes has the
\* caller's own profile as rater.
RatingWrittenOnlyByItsRater ==
    [][\A c \in users :
          /\ \A row \in RatingRows :
                (row.user_id \notin Ids(ProfileOf(c)) /\ InsertRating(c, row))
                   => (last'.err # "" /\ ratings' = ratings)
          /\ \A r \in ratings :
                r.user_id \notin Ids(ProfileOf(c)) =>
                   /\ \A new \in RatingUpdates(r) :
                         UpdateRating(c, new) => r \in ratings'
                   /\ DeleteRating(c, r) => r \in ratings'
          /\ (/\ last'.caller = c
              /\ last'.op \in {"insert ratings", "update ratings",
                               "delete ratings"})
                => \A r \in (ratings \ ratings') \cup (ratings' \ ratings) :
                      r.user_id \in Ids(ProfileOf(c))]_vars

\* C8 witness: an admin's update or delete of a rating of another rater has
\* just been refused and the rating is still there.
AdminWriteOfOthersRatingRefused ==
    /\ last.op \in {"update ratings", "delete ratings"}
    /\ last.caller \in users
    /\ CallerIsAdmin(last.caller)
    /\ last.n = 0
    /\ ratings # {}
    /\ \A r \in ratings : r.user_id \notin Ids(ProfileOf(last.caller))

\* C9: an insert of a Store row or of a Profile row by an API session whose
\* profile is not admin when it inserts is rejected and leaves the tables
\* unchanged; an API session's insert that adds a row comes from an admin.
InsertOnlyByAdmin ==
    [][\A c \in users :
          /\ ~ CallerIsAdmin(c) =>
                /\ \A row \in StoreRows :
                      InsertStore(c, row) => (last'.err # "" /\ stores' = stores)
                /\ \A row \in ProfileRows(user_role) :
                      InsertProfile(c, row)
                         => (last'.err # "" /\ profiles' = profiles)
          /\ (/\ last'.caller = c
              /\ last'.op \in {"insert stores", "insert profiles"}
              /\ (stores' # stores \/ profiles' # profiles))
                => CallerIsAdmin(c)]_vars

\* C9 witness: a store_owner's insert of a store has just been rejected.
StoreOwnerInsertOfStoreRejected ==
    /\ last.op = "insert stores"
    /\ last.caller \in users
    /\ RoleOf(last.caller) = {"store_owner"}
    /\ last.err # ""
    /\ last.n = 0

\* C10 (as claimed): a read of the Profile table raises no error and returns
\* every Profile row to an admin and exactly the caller's own row to any
\* other caller.
ProfileReadOwnOrAll ==
    last.op = "select profiles" =>
       /\ last.err = ""
       /\ last.rows = IF CallerIsAdmin(last.caller)
                      THEN Ids(profiles) ELSE Ids(ProfileOf(last.caller))

\* C11 (as claimed): the expansion of the policies of public.profiles for a
\* statement of an API session does not come back to the policies of
\* public.profiles: a read, insert or update of profiles never ends with
\* "infinite recursion detected in policy" (42P17).
ProfilePolicyLookupIsDirect ==
    last.op \in {"select profiles", "insert profiles", "update profiles"}
       => last.err # "42P17"

NoMetadataRegistrationCreatesDefaultProfile ==
    [][\A a \in AccountIds :
          Register(a, NULL, "<null>") =>
             /\ last'.err = ""
             /\ a \in users'
             /\ \E p \in profiles' :
                   /\ profiles' = profiles \cup {p}
                   /\ p \notin profiles
                   /\ p.user_id = a
                   /\ p.name = DefaultNameLen
                   /\ p.email = EmailOf(a)
                   /\ p.role = "normal_user"
                   /\ ProfilesNameCheck(p)]_vars

\* C20 witness: an account has just been registered and owns a Profile with
\* the placeholder name and role normal_user.
RegisteredWithDefaults ==
    /\ last.op = "register"
    /\ last.err = ""
    /\ last.caller \in users
    /\ \E p \in profiles :
          /\ p.user_id = last.caller
          /\ p.name = DefaultNameLen
          /\ p.role = "normal_user"

\* C19 (as claimed): the registration of an account whose metadata role is
\* absent or is no label of user_role succeeds and creates the account's
\* Profile with role normal_user.
UnknownRoleDefaultsToNormalUser ==
    [][\A a \in AccountIds : \A mrole \in MetaRoles \ user_role :
          Register(a, NULL, mrole) =>
             /\ last'.err = ""
             /\ a \in users'
             /\ \E p \in profiles' :
                   p.user_id = a /\ p.role = "normal_user"]_vars

\* C12 (as claimed): a delete sent by an API session that no policy permits
\* for the caller and the row is answered with an error and leaves every
\* table unchanged; it is never answered as a success.
DeniedWriteIsExplicit ==
    [][\A c \in users :
          /\ \A s \in stores :
                (DeleteStore(c, s) /\ ~ Permits("stores", "DELETE", c, s))
                   => (last'.err # "" /\ UNCHANGED dbvars)
          /\ \A p \in profiles :
                (DeleteProfile(c, p) /\ ~ Permits("profiles", "DELETE", c, p))
                   => (last'.err # "" /\ UNCHANGED dbvars)
          /\ \A r \in ratings :
                (DeleteRating(c, r) /\ ~ Permits("ratings", "DELETE", c, r))
                   => (last'.err # "" /\ UNCHANGED dbvars)]_vars

\* C16: in every reachable state each store's owner is a stored profile and
\* each rating's rater and store are stored rows; a delete of a profile
\* removes, with the profile, exactly the stores it owns, the ratings it
\* authored and the ratings of the removed stores.
DeleteProfileCascades ==
    /\ [](/\ \A s \in stores : s.owner_id \in Ids(profiles)
          /\ \A r \in ratings :
                r.user_id \in Ids(profiles) /\ r.store_id \in Ids(stores))
    /\ [][\A p \in profiles :
             DeleteProfile(TableOwner, p) =>
                /\ profiles' = profiles \ {p}
                /\ stores' = {s \in stores : s.owner_id # p.id}
                /\ ratings' = {r \in ratings :
                                  /\ r.user_id # p.id
                                  /\ r.store_id \in Ids(stores')}]_vars

\* C16 witness: the delete of a profile has just removed a store and a
\* rating with it, and a profile is left.
ProfileDeleteRemovedStoreAndRating ==
    /\ last.op = "delete profiles"
    /\ last.err = ""
    /\ last.n = 1
    /\ \E k \in 1..MaxStores : StoreIdOf(k) \in last.rows
    /\ \E k \in 1..MaxRatings : RatingIdOf(k) \in last.rows
    /\ profiles # {}

\* C17 (as claimed): in every reachable state each registered account has
\* exactly one Profile row.
OneProfilePerAccount ==
    \A a \in users : Cardinality(ProfileOf(a)) = 1

\* C18: handle_new_user run again for an account that has a Profile adds no
\* Profile row and leaves every stored Profile row as it was.
RedeliveryKeepsProfiles ==
    [][\A a \in users : \A mname \in MetaNames :
          (ProfileOf(a) # {} /\ RedeliverNewUser(a, mname, "<null>"))
             => /\ profiles' = profiles
                /\ Cardinality({p \in profiles' : p.user_id = a}) = 1]_vars

\* C18 witness: the second run for an account with a Profile has just been
\* rejected by the unique index on profiles.user_id.
RedeliveryRejectedAsDuplicate ==
    /\ last.op = "redeliver"
    /\ last.err = "23505"
    /\ Cardinality(ProfileOf(last.caller)) = 1

\* C14: in every reachable state every Profile name and every Store name
\* has 20 to 60 characters and every address that is not NULL has at most
\* 400; an insert or update of a profile or store that carries a name or an
\* address outside these bounds, by any caller, ends with an error and
\* changes nothing, and a registration whose metadata name is too short is
\* refused with 23514 and registers nothing.
LengthsWithinBounds ==
    /\ [](/\ \A p \in profiles :
                /\ p.name \in 20..60
                /\ p.address = NULL \/ p.address <= 400
          /\ \A s \in stores :
                /\ s.name \in 20..60
                /\ s.address # NULL /\ s.address <= 400)
    /\ [][/\ \A c \in Callers : last'.caller = c =>
                /\ last'.op = "insert stores" =>
                      \A row \in StoreRowsAny :
                         ((row.name \notin 20..60 \/ row.address > 400)
                            /\ InsertStore(c, row))
                         => (last'.err # "" /\ UNCHANGED dbvars)
                /\ last'.op = "update stores" =>
                      \A s \in stores : \A row \in StoreEdits(s) :
                         ((row.name \notin 20..60 \/ row.address > 400)
                            /\ UpdateStore(c, row))
                         => (last'.err # "" /\ UNCHANGED dbvars)
                /\ last'.op = "update profiles" =>
                      \A p \in profiles : \A row \in ProfileEdits(p) :
                         ((row.name \notin 20..60 \/ row.address > 400)
                            /\ UpdateProfile(c, row))
                         => (last'.err # "" /\ UNCHANGED dbvars)
          /\ last'.op = "register" =>
                \A a \in AccountIds : \A mname \in MetaNames \ {NULL} :
                   (mname \notin 20..60 /\ Register(a, mname, "<null>"))
                      => (last'.err = "23514" /\ UNCHANGED dbvars)]_vars

\* C14 witness: a store with a name of 60 and an address of 400 characters
\* is stored, and the table owner's update of a store beyond a bound has
\* just been rejected by the check constraint.
StoreAtBoundsKeptAgainstUpdate ==
    /\ last.op = "update stores"
    /\ last.caller = TableOwner
    /\ last.err = "23514"
    /\ \E s \in stores : s.name = 60 /\ s.address = 400

\* C15 (as claimed): in every reachable state every Store row's address has
\* at least one character.
StoreAddressNotEmpty ==
    \A s \in stores : s.address >= 1

\* C21: one run of handle_new_user for an account either fails and changes
\* nothing, or adds exactly one Profile row, whose user_id is that account;
\* every Profile row stored before and all Store and Rating rows stay as
\* they were.
HookInsertsOneProfileOnly ==
    [][\A a \in AccountIds :
          (/\ last'.caller = a
           /\ last'.op \in {"register", "redeliver"}
           /\ \/ Register(a, NULL, "<null>")
              \/ \E mname \in MetaNames : RedeliverNewUser(a, mname, "<null>"))
          => /\ stores' = stores
             /\ ratings' = ratings
             /\ profiles \subseteq profiles'
             /\ IF last'.err = ""
                THEN \E p \in profiles' \ profiles :
                        profiles' = profiles \cup {p} /\ p.user_id = a
                ELSE profiles' = profiles]_vars

\* C21 witness: an account has just been registered while another profile,
\* a store and a rating were stored.
RegisteredNextToOtherRows ==
    /\ last.op = "register"
    /\ last.err = ""
    /\ \E p \in profiles : p.user_id # last.caller
    /\ stores # {}
    /\ ratings # {}

\* C25: a statement of an API session whose profile is not admin changes no
\* profile's role: after it every stored profile has the role it had, so
\* no such statement makes a profile admin.
NonAdminChangesNoRole ==
    [][\A c \in users :
          (/\ last'.caller = c
           /\ last'.op \in {"update profiles", "insert profiles"}
           /\ ~ CallerIsAdmin(c))
          => /\ \A p \in profiles : \E q \in profiles' :
                   q.id = p.id /\ q.role = p.role
             /\ \A q \in profiles' :
                   q.role = "admin" =>
                      \E p \in profiles : p.id = q.id /\ p.role = "admin"]_vars

\* C25 witness: the update of a profile sent by a normal_user who has a
\* profile of its own has just been refused.
NormalUserProfileUpdateRefused ==
    /\ last.op = "update profiles"
    /\ last.caller \in users
    /\ RoleOf(last.caller) = {"normal_user"}
    /\ last.err # ""
    /\ last.n = 0

\* C26: no statement of an API session changes the rater of a stored
\* rating, and a rating an API session adds has the caller's profile as
\* its rater.
RaterNeverReassigned ==
    [][\A c \in users :
          (/\ last'.caller = c
           /\ last'.op \in {"update ratings", "insert ratings"})
          => /\ \A r \in ratings : \A q \in ratings' :
                   q.id = r.id => q.user_id = r.user_id
             /\ \A q \in ratings' :
                   q.id \notin Ids(ratings)
                      => q.user_id \in Ids(ProfileOf(c))]_vars

\* C26 witness: the rater's own update of its rating has just been refused
\* while another profile exists the rating could have been moved to.
OwnRatingUpdateRefused ==
    /\ last.op = "update ratings"
    /\ last.caller \in users
    /\ last.n = 0
    /\ \E r \in ratings : r.user_id \in Ids(ProfileOf(last.caller))
    /\ \E p \in profiles : p.user_id # last.caller

\* C24: loading becomes false only when both reads of a fetchData have
\* completed; and whenever both are in flight, for every way each may end
\* (answered or failed), handling the two answers in either order gives the
\* same stores, the same userRatings and loading = false, with loading
\* still true after the first of them.
FetchOrderIndependent ==
    \A s \in Sessions :
        LET ss == sess[s]
            d1 == store_ratings
            d2 == {r \in ratings : r.user_id = ss.profile}
        IN  /\ (ss.mounted /\ ~ ss.loading) => ss.pending = {}
            /\ ss.pending = {"stores", "ratings"} =>
                 \A es \in FetchErrors : \A er \in FetchErrors :
                    LET a1 == fetchStores(ss, d1, es)
                        a2 == fetchUserRatings(a1, d2, er)
                        b1 == fetchUserRatings(ss, d2, er)
                        b2 == fetchStores(b1, d1, es)
                    IN  /\ a1.loading /\ b1.loading
                        /\ ~ a2.loading /\ ~ b2.loading
                        /\ a2.pending = {} /\ b2.pending = {}
                        /\ a2.stores = b2.stores
                        /\ a2.userRatings = b2.userRatings
                        /\ es = "" => a2.stores = d1
                        /\ er = "" => a2.userRatings = d2

\* C24 witness: a session has completed both reads of a fetchData and
\* shows a store and a rating of its own, while its other session still
\* waits for both of its reads.
BothReadsCompletedWithData ==
    \E s \in Sessions : \E t \in Sessions \ {s} :
        /\ sess[s].mounted /\ ~ sess[s].loading /\ sess[s].pending = {}
        /\ sess[s].stores # {} /\ sess[s].userRatings # {}
        /\ sess[t].pending = {"stores", "ratings"}

(***************************************************************************)
(* The StoreOwnerDashboard component.  One record per browser session that  *)
(* shows it; useAuth() supplies the signed-in account's profile.            *)
(***************************************************************************)
\* the component as constructed (its useState initial values)
NewOwnerSession(a, profile) ==
    [account |-> a,
     profile |-> profile,
     store |-> {},
     ratings |-> {},
     loading |-> TRUE,
     mounted |-> FALSE,
     pending |-> {},
     storeData |-> NULL,
     toast |-> "none"]

\* .single(): the rows as one object; an answer of no row or of several
\* rows is the error PGRST116
Single(out) ==
    IF out.err # "" THEN [data |-> {}, code |-> out.err]
    ELSE IF Cardinality(out.tbl) = 1 THEN [data |-> out.tbl, code |-> ""]
    ELSE [data |-> {}, code |-> "PGRST116"]

\* fetchData: if (!profile) return; setLoading(true); fetchStore and
\* fetchRatings start and each sends its first request
ownerFetchData(ss) ==
    IF ss.profile = NULL THEN ss
    ELSE [ss EXCEPT !.loading = TRUE, !.pending = {"store", "storeId"}]

\* one of the two promises of the Promise.all has resolved; after the last
\* one setLoading(false) runs
OwnerFetchDone(ss, which) ==
    [ss EXCEPT !.pending = @ \ {which},
               !.loading = IF ss.pending \ {which} = {} THEN FALSE ELSE @]

\* useEffect(() => { fetchData(); }, [profile])
OwnerMount(s) ==
    /\ ~ sess[s].mounted
    /\ sess' = [sess EXCEPT ![s] =
                  ownerFetchData([sess[s] EXCEPT !.mounted = TRUE])]
    /\ UNCHANGED <<dbvars, last>>

\* from('store_ratings').select('*').eq('owner_id', profile.id)
OwnStoreRatings(pid) == {v \in store_ratings : v.owner_id = pid}

\* fetchStore after its await
fetchStore(ss, ans) ==
    OwnerFetchDone(IF ans.code # ""
                   THEN IF ans.code # "PGRST116"
                        THEN [ss EXCEPT !.toast = "Failed to fetch store"]
                        ELSE ss
                   ELSE [ss EXCEPT !.store = ans.data],
                   "store")

\* fetchStore: the view runs with its owner's rights, the read is not
\* subject to policies
FetchStoreResponse(s) ==
    /\ "store" \in sess[s].pending
    /\ sess' = [sess EXCEPT ![s] =
                  fetchStore(sess[s],
                             Single(Outcome("", 0,
                                            OwnStoreRatings(sess[s].profile))))]
    /\ UNCHANGED <<dbvars, last>>

\* fetchRatings, first await: from('stores').select('id')
\* .eq('owner_id', profile.id).single(), its error ignored;
\* if (!storeData) return; else the ratings request is sent
FetchRatingsStoreId(s) ==
    LET ss == sess[s]
        out == SelectStmt(ss.account, "stores", stores)
        ans == Single(IF out.err # "" THEN out
                      ELSE Outcome("", 0, {x \in out.tbl :
                                              x.owner_id = ss.profile}))
    IN  /\ "storeId" \in ss.pending
        /\ sess' = [sess EXCEPT ![s] =
                      IF ans.data = {}
                      THEN OwnerFetchDone(ss, "storeId")
                      ELSE [ss EXCEPT
                              !.storeData = (CHOOSE x \in ans.data : TRUE).id,
                              !.pending = (@ \ {"storeId"}) \cup {"ratings"}]]
        /\ UNCHANGED <<dbvars, last>>

\* profiles:user_id (name, email): the rater's profile as the caller may
\* read it, embedded in the rating; no readable profile embeds null ({})
EmbeddedProfile(c, pid) ==
    {[name |-> p.name, email |-> p.email] :
        p \in {x \in profiles : x.id = pid
                                /\ Visible(c, "profiles", "SELECT", x)}}

\* from('ratings').select('id, rating, created_at, profiles:user_id(name,
\* email)').eq('store_id', sid): one statement that reads ratings and
\* profiles, each subject to its policies
RatingsWithProfiles(c, sid) ==
    LET err == IF RewriteError(c, "ratings", "SELECT") # ""
               THEN RewriteError(c, "ratings", "SELECT")
               ELSE RewriteError(c, "profiles", "SELECT")
    IN  IF err # "" THEN Outcome(err, 0, {})
        ELSE Outcome("", 0,
                     {[id |-> r.id, rating |-> r.rating,
                       profiles |-> EmbeddedProfile(c, r.user_id)] :
                        r \in {x \in ratings :
                                 /\ x.store_id = sid
                                 /\ Visible(c, "ratings", "SELECT", x)}})

\* fetchRatings, second await: the ratings of the store are answered
FetchRatingsResponse(s) ==
    LET ss == sess[s]
        out == RatingsWithProfiles(ss.account, ss.storeData)
    IN  /\ "ratings" \in ss.pending
        /\ sess' = [sess EXCEPT ![s] =
                      OwnerFetchDone(
                          IF out.err # ""
                          THEN [ss EXCEPT !.toast = "Failed to fetch ratings"]
                          ELSE [ss EXCEPT !.ratings = out.tbl],
                          "ratings")]
        /\ UNCHANGED <<dbvars, last>>

(***************************************************************************)
(* SpecOwner: sessions of a store owner on the StoreOwnerDashboard, next to *)
(* the table owner writing stores and ratings.  It starts from the database *)
(* after account ClientAccount registered as store_owner and every other    *)
(* account registered without metadata.                                     *)
(***************************************************************************)
InitOwner ==
    /\ users = AccountIds
    /\ profiles = {NewUserProfile(
                       [id |-> a, email |-> EmailOf(a),
                        raw_user_meta_data |->
                            [name |-> NULL,
                             role |-> IF a = ClientAccount
                                      THEN "store_owner" ELSE "<null>"]],
                       ProfileIdOf(a)) : a \in AccountIds}
    /\ stores = {}
    /\ ratings = {}
    /\ nextId = [stores |-> 0, ratings |-> 0]
    /\ last = NoLast
    /\ sess = [s \in Sessions |->
                 NewOwnerSession(ClientAccount, ProfileIdOf(ClientAccount))]

NextOwner ==
    \/ \E s \in Sessions : OwnerMount(s)
    \/ \E s \in Sessions : FetchStoreResponse(s)
    \/ \E s \in Sessions : FetchRatingsStoreId(s)
    \/ \E s \in Sessions : FetchRatingsResponse(s)
    \/ \E row \in StoreRows : InsertStore(TableOwner, row)
    \/ \E row \in RatingRows : InsertRating(TableOwner, row)
    \/ \E r \in ratings : DeleteRating(TableOwner, r)

SpecOwner == InitOwner /\ [][NextOwner]_vars

\* C22 (as claimed): when the ratings request of a store owner's dashboard
\* is answered, the dashboard holds every Rating row of the owner's store,
\* each with the name and email of its rater.
FetchRatingsListsEveryRating ==
    [][\A s \in Sessions :
          ("ratings" \in sess[s].pending /\ "ratings" \notin sess'[s].pending)
             => sess'[s].ratings =
                  {[id |-> r.id, rating |-> r.rating,
                    profiles |-> {[name |-> p.name, email |-> p.email] :
                                     p \in {x \in profiles : x.id = r.user_id}}] :
                     r \in {x \in ratings : x.store_id = sess[s].storeData}}]_vars

\* C23 (as claimed): when the store request of the dashboard is answered,
\* the dashboard holds the summary of a store the caller's profile owns
\* whenever there is one; it stays without a store, and shows no error,
\* only when the profile owns no store.
FetchStoreYieldsOwnSummary ==
    [][\A s \in Sessions :
          ("store" \in sess[s].pending /\ "store" \notin sess'[s].pending)
             => LET own == OwnStoreRatings(sess[s].profile)
                IN  /\ sess'[s].store \subseteq own
                    /\ own # {} => sess'[s].store # {}
                    /\ sess'[s].toast = sess[s].toast]_vars

====
